---- MODULE Spec2Model ----
(***************************************************************************)
(* The Flask task API of Flask-Backend/app.py: two tables (users, task) in *)
(* a PostgreSQL database and eight request handlers.  The state is the     *)
(* content of the two tables, the two id sequences, one register request   *)
(* that another request may overtake between its existence probe and its   *)
(* commit, and the response of the last request answered.                  *)
(*                                                                         *)
(* Every handler is a pure operator <handler>_result from the request and  *)
(* the current store to the response and the store it leaves; the action   *)
(* of the same name applies that result.                                   *)
(***************************************************************************)
EXTENDS Integers, FiniteSets, Sequences

VARIABLES
    users,          \* table users: id -> [username, email, password_hash]
    users_id_seq,   \* last value handed out by the sequence behind users.id
    tasks,          \* table task: id -> [title, description, done, user_id]
    task_id_seq,    \* last value handed out by the sequence behind task.id
    pending,        \* body of the register request stopped between probe and commit
    resp            \* the last response: [op, id, status, json]

vars == <<users, users_id_seq, tasks, task_id_seq, pending, resp>>

---------------------------------------------------------------------------
(* Bounds and input values *)

MaxUserId == 2      \* cap on users_id_seq
MaxTaskId == 2      \* cap on task_id_seq

Null == "<null>"    \* JSON null, Python None

Usernames == {"al", "bo"}
Emails == {"a@x.com", "b@x.com"}
Passwords == {"p1", "p2"}
Salts == {"$2b$12$s1", "$2b$12$s2"}
Titles == {"T", "U"}
Descriptions == {"D"}

TaskIds == 1..MaxTaskId

\* A parsed JSON object is a function from the keys present to their values;
\* the body `null` parses to None.
NullBody == [json_null |-> TRUE]
IsNullBody(data) == "json_null" \in DOMAIN data

Restrict(f, S) == [k \in S |-> f[k]]

\* dict.get(key, default)
Get(data, key, default) == IF key \in DOMAIN data THEN data[key] ELSE default

\* the table with row stored under id
Insert(table, id, row) ==
    [i \in DOMAIN table \cup {id} |-> IF i = id THEN row ELSE table[i]]

Min(S) == CHOOSE x \in S : \A y \in S : x <= y

Idle == [idle |-> TRUE]
IsIdle(p) == "idle" \in DOMAIN p

---------------------------------------------------------------------------
(* Responses *)

\* The outcome of a handler: the response and the store it leaves.
Reply(status, json) ==
    [status |-> status, json |-> json,
     users |-> users, users_id_seq |-> users_id_seq,
     tasks |-> tasks, task_id_seq |-> task_id_seq]

\* jsonify({'error': text}), status
Error(status, text) == Reply(status, [error |-> text])

\* jsonify({'message': text}), 200
Message(text) == Reply(200, [message |-> text])

\* An exception no handler catches: Flask answers 500 and the session's
\* uncommitted work is discarded.
Uncaught(exception) == Reply(500, [exception |-> exception])

IsError(r, status, text) ==
    /\ r.status = status
    /\ DOMAIN r.json = {"error"}
    /\ r.json.error = text

IsMessage(r, text) ==
    /\ r.status = 200
    /\ DOMAIN r.json = {"message"}
    /\ r.json.message = text

---------------------------------------------------------------------------
(* Credential service: flask_bcrypt *)

\* bcrypt.hashpw: the salt followed by the digest of the password under it
hashpw(password, salt) == salt \o "$H(" \o password \o ")"

\* the salt a hash starts with
salt_of(pw_hash) == SubSeq(pw_hash, 1, Len("$2b$12$s1"))

\* bcrypt.check_password_hash(pw_hash, password), password a string
check_password_hash(pw_hash, password) ==
    hashpw(password, salt_of(pw_hash)) = pw_hash

\* `not password` in generate_password_hash
Falsy(password) == password \in {Null, ""}

\* User.__init__
User(username, email, password, salt) ==
    [username |-> username, email |-> email,
     password_hash |-> hashpw(password, salt)]

\* User.check_password
check_password(user, password) ==
    check_password_hash(user.password_hash, password)

---------------------------------------------------------------------------
(* Table users *)

\* User.query.filter_by(username=...).first(); the ids of the rows found
filter_by_username(username) ==
    {i \in DOMAIN users : users[i].username = username}

\* nullable=False on username and email
UserNotNullViolation(row) == row.username = Null \/ row.email = Null

\* users without its unique constraints
UserUniqueViolation_dropped(row) == FALSE

\* unique=True on username and on email
UserUniqueViolation(row) ==
    \E i \in DOMAIN users :
        users[i].username = row.username \/ users[i].email = row.email

\* db.session.add(new_user); db.session.commit().  The INSERT draws the next
\* value of the id sequence whether or not the row is accepted.
insert_user(row) ==
    IF UserNotNullViolation(row) \/ UserUniqueViolation(row)
    THEN [Uncaught("IntegrityError") EXCEPT !.users_id_seq = users_id_seq + 1]
    ELSE [Message("User created successfully") EXCEPT
            !.users = Insert(users, users_id_seq + 1, row),
            !.users_id_seq = users_id_seq + 1]

---------------------------------------------------------------------------
(* Handlers of the user routes *)

home_result == Message("Welcome to the Task API")

\* register_user from the new User to the response
register_commit_result(data, salt) ==
    IF Falsy(data.password)
    THEN Uncaught("ValueError")
    ELSE insert_user(User(data.username, data.email, data.password, salt))

Continue == Reply(0, [continue |-> TRUE])

\* register_user without its existence probe
register_probe_result_no_probe(data) ==
    IF IsNullBody(data)
    THEN Uncaught("TypeError")
    ELSE IF ~({"username", "email", "password"} \subseteq DOMAIN data)
    THEN Error(400, "Username, email, and password are required")
    ELSE Continue

\* register_user up to the existence probe: the error it answers, or Continue
register_probe_result(data) ==
    IF IsNullBody(data)
    THEN Uncaught("TypeError")
    ELSE IF ~({"username", "email", "password"} \subseteq DOMAIN data)
    THEN Error(400, "Username, email, and password are required")
    ELSE IF filter_by_username(data.username) # {}
    THEN Error(400, "Username already exists")
    ELSE Continue

\* register_user, run without interruption
register_user_result(data, salt) ==
    IF register_probe_result(data).status # 0
    THEN register_probe_result(data)
    ELSE register_commit_result(data, salt)

login_user_result(data) ==
    IF IsNullBody(data)
    THEN Uncaught("TypeError")
    ELSE IF ~({"username", "password"} \subseteq DOMAIN data)
    THEN Error(400, "Username and password are required")
    ELSE IF filter_by_username(data.username) = {}
    THEN Error(400, "Invalid username or password")
    ELSE LET user == users[Min(filter_by_username(data.username))] IN
         IF data.password = Null
         THEN Uncaught("TypeError")
         ELSE IF ~check_password(user, data.password)
         THEN Error(400, "Invalid username or password")
         ELSE Message("Welcome " \o user.username \o "! You are logged in.")

---------------------------------------------------------------------------
(* Table task *)

\* Task.to_dict
to_dict(id, row) ==
    [id |-> id, title |-> row.title, description |-> row.description,
     done |-> row.done, user_id |-> row.user_id]

\* TaskSchema().dump: the columns of the table without its foreign key
dump(id, row) ==
    [id |-> id, title |-> row.title, description |-> row.description,
     done |-> row.done]

\* nullable=False on title
TaskNotNullViolation(row) == row.title = Null

Max(S) == CHOOSE x \in S : \A y \in S : x >= y

\* an id one above the largest id in the table
next_task_id_max_plus_one ==
    IF DOMAIN tasks = {} THEN 1 ELSE Max(DOMAIN tasks) + 1

\* the id the sequence behind task.id gives the next row
next_task_id == task_id_seq + 1

\* insert_task without db.session.add
insert_task_no_add(row) ==
    IF TaskNotNullViolation(row)
    THEN [Uncaught("IntegrityError") EXCEPT !.task_id_seq = task_id_seq + 1]
    ELSE Reply(200, to_dict(next_task_id, row))

\* db.session.add(new_task); db.session.commit().  The INSERT draws the next
\* value of the id sequence whether or not the row is accepted.  user_id is the
\* id of a row read in the same request.
insert_task(row) ==
    IF TaskNotNullViolation(row)
    THEN [Uncaught("IntegrityError") EXCEPT !.task_id_seq = task_id_seq + 1]
    ELSE [Reply(200, to_dict(next_task_id, row)) EXCEPT
            !.tasks = Insert(tasks, next_task_id, row),
            !.task_id_seq = task_id_seq + 1]

\* update_row keeping the changed row when the commit fails
update_row_no_rollback(id, row) ==
    IF TaskNotNullViolation(row)
    THEN [Uncaught("IntegrityError") EXCEPT !.tasks = [tasks EXCEPT ![id] = row]]
    ELSE [Reply(200, to_dict(id, row)) EXCEPT
            !.tasks = [tasks EXCEPT ![id] = row]]

\* task.title = ...; db.session.commit()
update_row(id, row) ==
    IF TaskNotNullViolation(row)
    THEN Uncaught("IntegrityError")
    ELSE [Reply(200, to_dict(id, row)) EXCEPT
            !.tasks = [tasks EXCEPT ![id] = row]]

\* db.session.delete(task); db.session.commit()
delete_row(id) ==
    [Message("Task deleted") EXCEPT
        !.tasks = [i \in DOMAIN tasks \ {id} |-> tasks[i]]]

---------------------------------------------------------------------------
(* Handlers of the task routes *)

get_tasks_result ==
    Reply(200, [array |-> {dump(i, tasks[i]) : i \in DOMAIN tasks}])

\* add_task storing the user_id of the body without looking the user up
add_task_result_no_lookup(data) ==
    IF IsNullBody(data)
    THEN Uncaught("TypeError")
    ELSE IF ~({"title", "description"} \subseteq DOMAIN data)
    THEN Error(400, "Title and description are required")
    ELSE IF Get(data, "user_id", 0) = 0
    THEN Error(400, "User ID is required")
    ELSE insert_task([title |-> data.title,
                      description |-> data.description,
                      done |-> Get(data, "done", FALSE),
                      user_id |-> data.user_id])

\* data.get('user_id') is None when the key is absent; None and 0 are falsy
add_task_result(data) ==
    IF IsNullBody(data)
    THEN Uncaught("TypeError")
    ELSE IF ~({"title", "description"} \subseteq DOMAIN data)
    THEN Error(400, "Title and description are required")
    ELSE IF Get(data, "user_id", 0) = 0
    THEN Error(400, "User ID is required")
    ELSE IF data.user_id \notin DOMAIN users
    THEN Error(404, "User not found")
    ELSE insert_task([title |-> data.title,
                      description |-> data.description,
                      done |-> Get(data, "done", FALSE),
                      user_id |-> data.user_id])

get_task_result(id) ==
    IF id \notin DOMAIN tasks
    THEN Error(400, "Task not found")
    ELSE Reply(200, to_dict(id, tasks[id]))

\* update_task with done defaulting to False instead of the stored value
update_task_result_done_default(id, data) ==
    IF id \notin DOMAIN tasks
    THEN Error(400, "Task not found")
    ELSE IF IsNullBody(data)
    THEN Uncaught("AttributeError")
    ELSE update_row(id, [title |-> Get(data, "title", tasks[id].title),
                         description |-> Get(data, "description", tasks[id].description),
                         done |-> Get(data, "done", FALSE),
                         user_id |-> tasks[id].user_id])

update_task_result(id, data) ==
    IF id \notin DOMAIN tasks
    THEN Error(400, "Task not found")
    ELSE IF IsNullBody(data)
    THEN Uncaught("AttributeError")
    ELSE update_row(id, [title |-> Get(data, "title", tasks[id].title),
                         description |-> Get(data, "description", tasks[id].description),
                         done |-> Get(data, "done", tasks[id].done),
                         user_id |-> tasks[id].user_id])

delete_task_result(id) ==
    IF id \notin DOMAIN tasks
    THEN Error(400, "Task not found")
    ELSE delete_row(id)

---------------------------------------------------------------------------
(* Actions *)

\* The request is answered with r and the store becomes r's.
Answer(op, id, r) ==
    /\ r.users_id_seq <= MaxUserId
    /\ r.task_id_seq <= MaxTaskId
    /\ users' = r.users
    /\ users_id_seq' = r.users_id_seq
    /\ tasks' = r.tasks
    /\ task_id_seq' = r.task_id_seq
    /\ resp' = [op |-> op, id |-> id, status |-> r.status, json |-> r.json]

home ==
    /\ Answer("home", 0, home_result)
    /\ UNCHANGED pending

register_user(data, salt) ==
    /\ Answer("register_user", 0, register_user_result(data, salt))
    /\ UNCHANGED pending

\* A register request passes its probe and is overtaken before it commits.
register_probe(data) ==
    /\ IsIdle(pending)
    /\ register_probe_result(data).status = 0
    /\ pending' = data
    /\ UNCHANGED <<users, users_id_seq, tasks, task_id_seq, resp>>

\* The overtaken register request goes on from the probe to its answer.
register_commit(salt) ==
    /\ ~IsIdle(pending)
    /\ Answer("register_user", 0, register_commit_result(pending, salt))
    /\ pending' = Idle

login_user(data) ==
    /\ Answer("login_user", 0, login_user_result(data))
    /\ UNCHANGED pending

get_tasks ==
    /\ Answer("get_tasks", 0, get_tasks_result)
    /\ UNCHANGED pending

add_task(data) ==
    /\ Answer("add_task", 0, add_task_result(data))
    /\ UNCHANGED pending

get_task(id) ==
    /\ Answer("get_task", id, get_task_result(id))
    /\ UNCHANGED pending

update_task(id, data) ==
    /\ Answer("update_task", id, update_task_result(id, data))
    /\ UNCHANGED pending

delete_task(id) ==
    /\ Answer("delete_task", id, delete_task_result(id))
    /\ UNCHANGED pending

---------------------------------------------------------------------------
(* Requests *)

\* A key a body leaves out
Absent == "<absent>"

\* the JSON object holding the keys of rec that are not left out
Body(rec) == Restrict(rec, {k \in DOMAIN rec : rec[k] # Absent})

NoUserId == -1      \* user_id left out of a body

\* a task body; done is "true", "false" or left out
TaskBody(title, description, user_id, done) ==
    [k \in {k \in {"title"} : title # Absent}
           \cup {k \in {"description"} : description # Absent}
           \cup {k \in {"user_id"} : user_id # NoUserId}
           \cup {k \in {"done"} : done # Absent} |->
        CASE k = "title" -> title
          [] k = "description" -> description
          [] k = "user_id" -> user_id
          [] k = "done" -> (done = "true")]

RegisterBody(username, email, password) ==
    Body([username |-> username, email |-> email, password |-> password])

LoginBody(username, password) ==
    Body([username |-> username, password |-> password])

UsernameValues == Usernames \cup {Null, Absent}
EmailValues == Emails \cup {Null, Absent}
PasswordValues == Passwords \cup {Null, Absent}
TitleValues == Titles \cup {Null, Absent}
DescriptionValues == Descriptions \cup {Null, Absent}
DoneValues == {"true", "false", Absent}
UserIdValues == {NoUserId, 0} \cup 1..MaxUserId
PathIds == 0..MaxTaskId

\* P of every register body, login body, task body
AllRegisterBodies(P(_)) ==
    /\ P(NullBody)
    /\ \A u \in UsernameValues, e \in EmailValues, p \in PasswordValues :
          P(RegisterBody(u, e, p))

AllLoginBodies(P(_)) ==
    /\ P(NullBody)
    /\ \A u \in UsernameValues, p \in PasswordValues : P(LoginBody(u, p))

AllTaskBodies(P(_)) ==
    /\ P(NullBody)
    /\ \A t \in TitleValues, d \in DescriptionValues, u \in UserIdValues,
          done \in DoneValues : P(TaskBody(t, d, u, done))

\* every update body: each of title, description and done supplied or not
AllUpdateBodies(P(_)) ==
    \A t \in TitleValues, d \in DescriptionValues, done \in DoneValues :
        P(TaskBody(t, d, NoUserId, done))

Init ==
    /\ users = <<>>
    /\ users_id_seq = 0
    /\ tasks = <<>>
    /\ task_id_seq = 0
    /\ pending = Idle
    /\ resp = [op |-> "none", id |-> 0, status |-> 0, json |-> [none |-> TRUE]]

\* The user routes with every body.  One register request at a time, with
\* string fields, may be overtaken by other requests between its probe and its
\* commit.
NextUsers ==
    \/ home
    \/ \E salt \in Salts : register_user(NullBody, salt)
    \/ \E u \in UsernameValues, e \in EmailValues, p \in PasswordValues, salt \in Salts :
          register_user(RegisterBody(u, e, p), salt)
    \/ \E u \in Usernames, e \in Emails, p \in Passwords :
          register_probe(RegisterBody(u, e, p))
    \/ \E salt \in Salts : register_commit(salt)
    \/ login_user(NullBody)
    \/ \E u \in UsernameValues, p \in PasswordValues : login_user(LoginBody(u, p))

SpecUsers == Init /\ [][NextUsers]_vars

\* The whole API, one request at a time, with one account to register.
Next ==
    \/ home
    \/ \E e \in {"a@x.com", Absent} :
          register_user(RegisterBody("al", e, "p1"), "$2b$12$s1")
    \/ \E p \in {"p1", "p2", Absent} : login_user(LoginBody("al", p))
    \/ get_tasks
    \/ add_task(NullBody)
    \/ \E t \in {"T", Null, Absent}, d \in {"D", Absent}, u \in {NoUserId, 0, 1, 2},
          done \in {"true", Absent} :
          add_task(TaskBody(t, d, u, done))
    \/ \E id \in PathIds : get_task(id)
    \/ \E id \in PathIds : update_task(id, NullBody)
    \/ \E id \in PathIds, t \in TitleValues, d \in {"D", Null, Absent},
          done \in DoneValues :
          update_task(id, TaskBody(t, d, NoUserId, done))
    \/ \E id \in PathIds : delete_task(id)

Spec == Init /\ [][Next]_vars

---------------------------------------------------------------------------
(* Claims *)

\* C1: in every reachable state of the user store, whatever register requests
\* ran and however they interleaved, no two distinct Users share a username
\* and no two distinct Users share an email.
C1_UniqueUsers ==
    \A i \in DOMAIN users, j \in DOMAIN users :
        i # j => /\ users[i].username # users[j].username
                 /\ users[i].email # users[j].email

\* two Users stored, the second by the register request just answered
C1_Witness ==
    /\ Cardinality(DOMAIN users) = 2
    /\ resp.op = "register_user"
    /\ resp.status = 200

\* C3: a register request whose username an existing User holds answers 400
\* with an error body and leaves the set of Users as it was.
C3_TakenUsernameRejected ==
    AllRegisterBodies(LAMBDA data :
        ("username" \in DOMAIN data /\ filter_by_username(data.username) # {}) =>
            \A salt \in Salts :
                LET r == register_user_result(data, salt) IN
                /\ r.status = 400
                /\ DOMAIN r.json = {"error"}
                /\ r.users = users)

\* a register request was refused for its username
C3_Witness ==
    /\ resp.op = "register_user"
    /\ IsError(resp, 400, "Username already exists")
    /\ users # <<>>

\* the one User a register request added, if it added exactly one
NewUsers(r) == DOMAIN r.users \ DOMAIN users

\* C2: no register request ends in an uncaught exception; a request whose body
\* has username, email and password and whose username is not taken answers
\* 200 with the success message and adds exactly one User, whose stored
\* password hash is not the raw password.
C2_RegisterSucceeds ==
    AllRegisterBodies(LAMBDA data :
        \A salt \in Salts :
            LET r == register_user_result(data, salt) IN
            /\ r.status # 500
            /\ ( /\ ~IsNullBody(data)
                 /\ {"username", "email", "password"} \subseteq DOMAIN data
                 /\ filter_by_username(data.username) = {} )
               => /\ IsMessage(r, "User created successfully")
                  /\ Cardinality(NewUsers(r)) = 1
                  /\ \A i \in DOMAIN users : r.users[i] = users[i]
                  /\ \A i \in NewUsers(r) :
                        /\ r.users[i].username = data.username
                        /\ r.users[i].password_hash # data.password)

\* C4: every response is a success (200) or a JSON object with an error key
\* and status 400 or 404; no request ends in an uncaught exception.
C4_MappedOutcome ==
    resp.op # "none" =>
        \/ resp.status = 200
        \/ resp.status \in {400, 404} /\ DOMAIN resp.json = {"error"}

\* the password a User registered with: the one its stored hash is the hash of
Registered(user, password) ==
    \E salt \in Salts : user.password_hash = hashpw(password, salt)

\* C5: login with an existing username and its registered password answers
\* 200; with any other password it answers 400 with the same body as a login
\* with an unknown username and that password.
C5_LoginFailuresAlike ==
    \A i \in DOMAIN users, v \in Usernames \cup {Null}, w \in Passwords \cup {Null} :
        LET known == login_user_result(LoginBody(users[i].username, w))
            unknown == login_user_result(LoginBody(v, w))
        IN  /\ Registered(users[i], w) => known.status = 200
            /\ (~Registered(users[i], w) /\ filter_by_username(v) = {}) =>
                  /\ known.status = 400
                  /\ unknown.status = 400
                  /\ known.json = unknown.json

\* the Tasks a create-task request added
NewTasks(r) == DOMAIN r.tasks \ DOMAIN tasks

\* the request answered 200 with the one Task it added, owned by user_id
AddedOneTask(r, data) ==
    /\ r.status = 200
    /\ Cardinality(NewTasks(r)) = 1
    /\ \A id \in DOMAIN tasks : id \in DOMAIN r.tasks /\ r.tasks[id] = tasks[id]
    /\ r.json.user_id = data.user_id
    /\ \A id \in NewTasks(r) : r.json = to_dict(id, r.tasks[id])

C7_TaskOwnerExists ==
    \A id \in DOMAIN tasks : tasks[id].user_id \in DOMAIN users

\* a Task is stored and an update-task request has just changed the table
C7_Witness ==
    /\ tasks # <<>>
    /\ resp.op = "update_task"
    /\ resp.status = 200

\* the row update-task is asked for: the fields of the body over the stored row
Merged(row, data) ==
    [title |-> IF "title" \in DOMAIN data THEN data.title ELSE row.title,
     description |-> IF "description" \in DOMAIN data
                     THEN data.description ELSE row.description,
     done |-> IF "done" \in DOMAIN data THEN data.done ELSE row.done,
     user_id |-> row.user_id]

Gone(id) ==
    /\ id <= task_id_seq
    /\ IsError(get_task_result(id), 400, "Task not found")

\* C9: once a delete-task request on an id answers 200, every later get-task
\* request on that id reports not found, whatever requests come between: ids
\* are handed out in increasing order and a deleted id is never given again.
C9_DeletedStaysGone ==
    [][\A id \in TaskIds :
          /\ (resp'.op = "delete_task" /\ resp'.id = id /\ resp'.status = 200
                /\ id \in DOMAIN tasks) => Gone(id)'
          /\ Gone(id) => Gone(id)'
          /\ \A new \in DOMAIN tasks' \ DOMAIN tasks :
                new > task_id_seq /\ new <= task_id_seq']_vars

\* a Task was deleted, a later Task is stored, and get-task on the deleted id
\* has just reported not found
C9_Witness ==
    /\ resp.op = "get_task"
    /\ IsError(resp, 400, "Task not found")
    /\ resp.id \in TaskIds
    /\ Gone(resp.id)
    /\ \E later \in DOMAIN tasks : later > resp.id

\* the request left every User and every Task as it was
StoreUnchanged(r) == r.users = users /\ r.tasks = tasks

\* the request left every User there was as it was
UsersKept(r) == \A i \in DOMAIN users : i \in DOMAIN r.users /\ r.users[i] = users[i]

\* C10: home, login, list-tasks and get-task never change the store; register,
\* create-task, update-task and delete-task change nothing when they do not
\* answer 200; no request modifies or removes a User.
C10_Frame ==
    /\ StoreUnchanged(home_result)
    /\ StoreUnchanged(get_tasks_result)
    /\ AllLoginBodies(LAMBDA data : StoreUnchanged(login_user_result(data)))
    /\ AllRegisterBodies(LAMBDA data :
          \A salt \in Salts :
              LET r == register_user_result(data, salt) IN
              /\ r.status # 200 => StoreUnchanged(r)
              /\ UsersKept(r) /\ r.tasks = tasks)
    /\ AllTaskBodies(LAMBDA data :
          LET r == add_task_result(data) IN
          /\ r.status # 200 => StoreUnchanged(r)
          /\ r.users = users)
    /\ \A id \in PathIds :
          /\ StoreUnchanged(get_task_result(id))
          /\ LET r == delete_task_result(id) IN
                /\ r.status # 200 => StoreUnchanged(r)
                /\ r.users = users
          /\ StoreUnchanged(update_task_result(id, NullBody))
          /\ AllUpdateBodies(LAMBDA data :
                LET r == update_task_result(id, data) IN
                /\ r.status # 200 => StoreUnchanged(r)
                /\ r.users = users)

\* a User and a Task are stored and a delete-task request was just refused
C10_Witness ==
    /\ resp.op = "delete_task"
    /\ IsError(resp, 400, "Task not found")
    /\ users # <<>>
    /\ tasks # <<>>

====
